---------------------------- MODULE Spec2Model ----------------------------
(***************************************************************************)
(* pyheatpump: COP engine (cop.py), power calculator (power.py) and cost   *)
(* interpolator (costs.py), modelled as a machine whose steps are calls.   *)
(*                                                                         *)
(* Numbers.  Python floats are modelled as exact rationals <<n, d>> in     *)
(* lowest terms with d > 0; binary64 rounding is not modelled.  A dict is  *)
(* a sequence of <<key, value>> pairs with distinct keys, in insertion     *)
(* order (the order Python iterates it in).                                *)
(***************************************************************************)
EXTENDS Integers, Sequences, FiniteSets, TLC

(***************************************************************************)
(* Bounds of the model.                                                    *)
(***************************************************************************)
MaxCostEntries == 3

(***************************************************************************)
(* State.  The modules' default tables are module-level dicts; a caller     *)
(* makes one call at a time, may make it once more with the same           *)
(* arguments (pc = "repeated"), and takes its outcome.                     *)
(***************************************************************************)
VARIABLES
    HP_PARAMETERS,      \* cop.py's default table
    COST_REGRESSION,    \* costs.py's default table
    pc,                 \* "idle": between calls; "done": a call has ended
    call,               \* the call made: its function and arguments
    outcome,            \* what the call returned or raised
    argument,           \* the dict the caller passed, as it is after the call
    first               \* pc = "repeated": what the same call gave before

vars == <<HP_PARAMETERS, COST_REGRESSION, pc, call, outcome, argument, first>>

(***************************************************************************)
(* Exact rational arithmetic.                                              *)
(***************************************************************************)
Abs(n) == IF n < 0 THEN -n ELSE n

RECURSIVE GCD(_, _)
GCD(a, b) == IF b = 0 THEN a ELSE GCD(b, a % b)

Norm(n, d) ==
    LET g == GCD(Abs(n), Abs(d))
        s == IF d < 0 THEN -1 ELSE 1
    IN  <<(s * n) \div g, (s * d) \div g>>

R(n) == <<n, 1>>
Q(n, d) == Norm(n, d)

\* over the least common denominator, so that intermediate products stay small
Scale(x, y) == y[2] \div GCD(x[2], y[2])
RAdd(x, y) == Norm(x[1] * Scale(x, y) + y[1] * Scale(y, x), x[2] * Scale(x, y))
RSub(x, y) == Norm(x[1] * Scale(x, y) - y[1] * Scale(y, x), x[2] * Scale(x, y))
\* cross-cancelled so that intermediate products stay small
RMul(x, y) ==
    LET g1 == GCD(Abs(x[1]), y[2])
        g2 == GCD(Abs(y[1]), x[2])
        h1 == IF g1 = 0 THEN 1 ELSE g1
        h2 == IF g2 = 0 THEN 1 ELSE g2
    IN  Norm((x[1] \div h1) * (y[1] \div h2), (x[2] \div h2) * (y[2] \div h1))
RInv(y) == Norm(y[2], y[1])
RDiv(x, y) == RMul(x, RInv(y))
RLt(x, y) == x[1] * Scale(x, y) < y[1] * Scale(y, x)
RLe(x, y) == x[1] * Scale(x, y) <= y[1] * Scale(y, x)
RZero == R(0)
RIsZero(x) == x[1] = 0

(***************************************************************************)
(* Outcomes of a call: a returned value or a raised exception, with the    *)
(* warnings emitted on the way.                                            *)
(***************************************************************************)
None == "<None>"
NoValue == [tag |-> "none"]
Num(q) == [tag |-> "num", q |-> q]
Str(s) == [tag |-> "str", s |-> s]

Return(v, w) == [kind |-> "return", exc |-> "", arg |-> "", value |-> v, warnings |-> w]
Raise(e, a, w) == [kind |-> "raise", exc |-> e, arg |-> a, value |-> NoValue, warnings |-> w]


(***************************************************************************)
(* Python dicts as sequences of <<key, value>> pairs.                      *)
(***************************************************************************)
DictKeys(d) == [i \in 1..Len(d) |-> d[i][1]]
HasKey(d, k) == \E i \in 1..Len(d) : d[i][1] = k
GetItem(d, k) == d[CHOOSE i \in 1..Len(d) : d[i][1] = k][2]
DistinctKeys(d) == \A i, j \in 1..Len(d) : d[i][1] = d[j][1] => i = j

\* d[k] = v: the value under an existing key is replaced, a new key is appended
SetItem(d, k, v) ==
    IF HasKey(d, k)
    THEN [i \in 1..Len(d) |-> IF d[i][1] = k THEN <<k, v>> ELSE d[i]]
    ELSE Append(d, <<k, v>>)

\* A store is an assignment d[k] = v a call makes to one of the dicts it can
\* reach: "HP_PARAMETERS", "COST_REGRESSION", or the "argument" it was passed.
Store(target, k, v) == [target |-> target, key |-> k, value |-> v]

\* dict d, known to the call as `target`, after the stores in order
RECURSIVE ApplyStores(_, _, _)
ApplyStores(d, target, stores) ==
    IF stores = <<>> THEN d
    ELSE ApplyStores(IF Head(stores).target = target
                     THEN SetItem(d, Head(stores).key, Head(stores).value)
                     ELSE d,
                     target, Tail(stores))

(***************************************************************************)
(* power.py                                                                *)
(***************************************************************************)
WATER == [cp |-> R(4187)]

\* the mass flow left unchecked
calculate_thermal_power_AnyFlow(high_temperature, low_temperature, mass_flow) ==
    LET delta_T == RSub(high_temperature, low_temperature)
    IN  IF RLt(delta_T, RZero)
        THEN Raise("ValueError", "temperature difference must be positive", <<>>)
        ELSE Return(Num(RMul(RMul(WATER.cp, mass_flow), delta_T)), <<>>)

calculate_thermal_power(high_temperature, low_temperature, mass_flow) ==
    LET delta_T == RSub(high_temperature, low_temperature)
    IN  IF RLt(delta_T, RZero)
        THEN Raise("ValueError", "temperature difference must be positive", <<>>)
        ELSE IF RLt(mass_flow, RZero)
        THEN Raise("ValueError", "mass flow rate must be positive", <<>>)
        ELSE LET heat_capacity == RMul(WATER.cp, mass_flow)
                 thermal_power == RMul(heat_capacity, delta_T)
             IN  Return(Num(thermal_power), <<>>)

\* the COP left unchecked
calculate_output_power_AnyCop(cop, thermal_power_source) ==
    IF RLt(thermal_power_source, RZero)
    THEN Raise("ValueError", "thermal power source must be positive", <<>>)
    ELSE IF RIsZero(cop)
    THEN Raise("ZeroDivisionError", "division by zero", <<>>)
    ELSE Return(Num(RDiv(RMul(RAdd(R(1), cop), thermal_power_source), cop)), <<>>)

calculate_output_power(cop, thermal_power_source) ==
    IF RLt(cop, RZero)
    THEN Raise("ValueError", "coefficient of performance must be positive", <<>>)
    ELSE IF RLt(thermal_power_source, RZero)
    THEN Raise("ValueError", "thermal power source must be positive", <<>>)
    ELSE IF RIsZero(cop)
    THEN Raise("ZeroDivisionError", "division by zero", <<>>)
    ELSE LET total_power == RDiv(RMul(RAdd(R(1), cop), thermal_power_source), cop)
         IN  Return(Num(total_power), <<>>)

\* power.py reads WATER and assigns to local names only
calculate_thermal_power_stores(high_temperature, low_temperature, mass_flow) == <<>>
calculate_output_power_stores(cop, thermal_power_source) == <<>>

(***************************************************************************)
(* costs.py                                                                *)
(***************************************************************************)
COST_REGRESSION_INIT ==
    << <<R(1), R(1320000)>>, <<R(3), R(910000)>>,
       <<R(10), R(710000)>>, <<R(20), R(510000)>> >>

\* the keys taken in the order the dict stores them
sorted_AsStored(s) == s

\* sorted(): ascending, by insertion into an already sorted prefix
RECURSIVE Insert(_, _)
Insert(s, x) ==
    IF s = <<>> THEN <<x>>
    ELSE IF RLe(x, Head(s)) THEN <<x>> \o s
    ELSE <<Head(s)>> \o Insert(Tail(s), x)

RECURSIVE sorted(_)
sorted(s) == IF s = <<>> THEN <<>> ELSE Insert(sorted(Tail(s)), Head(s))

\* bisect.bisect_right(a, x): the library's binary search, lo = 0, hi = len(a)
RECURSIVE bisect_loop(_, _, _, _)
bisect_loop(a, x, lo, hi) ==
    IF lo < hi
    THEN LET mid == (lo + hi) \div 2
         IN  IF RLt(x, a[mid + 1])      \* a[mid], 0-based
             THEN bisect_loop(a, x, lo, mid)
             ELSE bisect_loop(a, x, mid + 1, hi)
    ELSE lo

bisect_right(a, x) == bisect_loop(a, x, 0, Len(a))


\* interpolate with one of its steps changed:
\*   "any size"      the size is not checked against 0
\*   "insert left"   no look-up of the size among the keys, and the insertion
\*                   position taken left of an equal key
\*   "extrapolate"   above the largest key, the last segment is extended
interpolate_changed(size, costs, change) ==
    IF change # "any size" /\ RLt(size, RZero)
    THEN Raise("ValueError", "size must be positive", <<>>)
    ELSE IF change # "insert left" /\ HasKey(costs, size)
    THEN Return(Num(GetItem(costs, size)), <<>>)
    ELSE LET keys == sorted(DictKeys(costs))
             n == Len(keys)
             pos == IF change = "insert left"
                    THEN Cardinality({i \in 1..n : RLt(keys[i], size)})
                    ELSE bisect_right(keys, size)
             Line(x1, x2) ==
                LET y1 == GetItem(costs, x1)
                    y2 == GetItem(costs, x2)
                IN  RAdd(y1, RDiv(RMul(RSub(y2, y1), RSub(size, x1)), RSub(x2, x1)))
         IN  IF pos = 0
             THEN Raise("ValueError", "size is too small", <<>>)
             ELSE IF pos = n
             THEN IF change = "extrapolate" /\ n > 1
                  THEN Return(Num(Line(keys[n - 1], keys[n])), <<>>)
                  ELSE Return(Num(GetItem(costs, keys[n])), <<>>)
             ELSE Return(Num(Line(keys[pos], keys[pos + 1])), <<>>)

interpolate_AnySize(size, costs) == interpolate_changed(size, costs, "any size")
interpolate_InsertLeft(size, costs) == interpolate_changed(size, costs, "insert left")
interpolate_Extrapolate(size, costs) == interpolate_changed(size, costs, "extrapolate")

interpolate(size, costs) ==
    IF RLt(size, RZero)
    THEN Raise("ValueError", "size must be positive", <<>>)
    ELSE IF HasKey(costs, size)
    THEN Return(Num(GetItem(costs, size)), <<>>)
    ELSE LET keys == sorted(DictKeys(costs))
             pos == bisect_right(keys, size)
         IN  IF pos = 0
             THEN Raise("ValueError", "size is too small", <<>>)
             ELSE IF pos = Len(keys)
             THEN Return(Num(GetItem(costs, keys[Len(keys)])), <<>>)
             ELSE LET x1 == keys[pos]           \* keys[pos - 1], 0-based
                      x2 == keys[pos + 1]       \* keys[pos], 0-based
                      y1 == GetItem(costs, x1)
                      y2 == GetItem(costs, x2)
                  IN  Return(Num(RAdd(y1, RDiv(RMul(RSub(y2, y1), RSub(size, x1)),
                                               RSub(x2, x1)))), <<>>)

\* a look-up that keeps the cost it has worked out in the table
interpolate_stores_Memo(size, costs, target) ==
    LET out == interpolate(size, costs)
    IN  IF out.kind = "return" /\ ~HasKey(costs, size)
        THEN <<Store(target, size, out.value.q)>>
        ELSE <<>>

\* the stores of interpolate to `costs`, which is the dict `target`: it reads
\* costs (in, [], keys()) and sorts a copy of the keys; it assigns to no dict
interpolate_stores(size, costs, target) == <<>>

(***************************************************************************)
(* cop.py                                                                  *)
(***************************************************************************)
\* m * 10^e: a coefficient too large to be written out; it is only carried
Dec(m, e) == [m |-> m, e |-> e]

HP_PARAMETERS_INIT ==
    << <<"conventional",
         << <<"T_sink_out_low", R(0)>>, <<"T_sink_out_high", R(100)>>,
            <<"a", Dec(1448, 9)>>, <<"b", Q(8873, 100)>>,
            <<"c", Q(-4946, 1000)>>, <<"d", R(0)>> >> >>,
       <<"very high temperature",
         << <<"T_sink_out_low", R(100)>>, <<"T_sink_out_high", R(160)>>,
            <<"a", Dec(19118, -4)>>, <<"b", Q(-89094, 100000)>>,
            <<"c", Q(67895, 100000)>>, <<"d", Q(44189, 1000000)>> >> >> >>

\* classify_hp returning at the first matching entry
RECURSIVE classify_loop_FirstMatch(_, _, _, _)
classify_loop_FirstMatch(T_sink_out, parameters, i, _type) ==
    IF i > Len(parameters) THEN Return(Str(_type), <<>>)
    ELSE LET key == parameters[i][1]
             values == parameters[i][2]
         IN  IF ~HasKey(values, "T_sink_out_low")
             THEN Raise("KeyError", "T_sink_out_low", <<>>)
             ELSE IF ~RLe(GetItem(values, "T_sink_out_low"), T_sink_out)
             THEN classify_loop_FirstMatch(T_sink_out, parameters, i + 1, _type)
             ELSE IF ~HasKey(values, "T_sink_out_high")
             THEN Raise("KeyError", "T_sink_out_high", <<>>)
             ELSE IF RLe(T_sink_out, GetItem(values, "T_sink_out_high"))
             THEN Return(Str(key), <<>>)
             ELSE classify_loop_FirstMatch(T_sink_out, parameters, i + 1, _type)

\* the loop of classify_hp from entry i on, _type being the match so far; the
\* chained comparison reads T_sink_out_high only when the first half holds
RECURSIVE classify_loop(_, _, _, _)
classify_loop(T_sink_out, parameters, i, _type) ==
    IF i > Len(parameters) THEN Return(Str(_type), <<>>)
    ELSE LET key == parameters[i][1]
             values == parameters[i][2]
         IN  IF ~HasKey(values, "T_sink_out_low")
             THEN Raise("KeyError", "T_sink_out_low", <<>>)
             ELSE IF ~RLe(GetItem(values, "T_sink_out_low"), T_sink_out)
             THEN classify_loop(T_sink_out, parameters, i + 1, _type)
             ELSE IF ~HasKey(values, "T_sink_out_high")
             THEN Raise("KeyError", "T_sink_out_high", <<>>)
             ELSE IF RLe(T_sink_out, GetItem(values, "T_sink_out_high"))
             THEN classify_loop(T_sink_out, parameters, i + 1, key)
             ELSE classify_loop(T_sink_out, parameters, i + 1, _type)

classify_hp(T_sink_out, parameters) == classify_loop(T_sink_out, parameters, 1, None)

\* base ** exp of Python floats: x ** 0.0 is 1.0, 0.0 ** negative raises, and
\* any other power is carried unevaluated
Pow(base, exp) ==
    IF RIsZero(exp) THEN [pow |-> "one"]
    ELSE [pow |-> "power", base |-> base, exp |-> exp]
PowFails(base, exp) == RIsZero(base) /\ RLt(exp, RZero)

\* a * pow1 * pow2, carried unevaluated
Product(a, pow1, pow2) == [tag |-> "product", a |-> a, pow1 |-> pow1, pow2 |-> pow2]

\* the first of `names`, from name j on, that dict p lacks (None: it lacks none):
\* the subscript p[name] that raises KeyError
RECURSIVE first_missing(_, _, _)
first_missing(p, names, j) ==
    IF j > Len(names) THEN None
    ELSE IF ~HasKey(p, names[j]) THEN names[j]
    ELSE first_missing(p, names, j + 1)

jesper_conventional(delta_T, T_sink_out, parameters) ==
    LET lacking == first_missing(parameters, <<"a", "b", "c", "d">>, 1)
    IN  IF lacking # None THEN Raise("KeyError", lacking, <<>>)
        ELSE
        LET a == GetItem(parameters, "a")
            b == GetItem(parameters, "b")
            c == GetItem(parameters, "c")
            d == GetItem(parameters, "d")
            base1 == RAdd(delta_T, RMul(R(2), b))
            base2 == RAdd(T_sink_out, b)
        IN  IF PowFails(base1, c) \/ PowFails(base2, d)
            THEN Raise("ZeroDivisionError", "0.0 cannot be raised to a negative power", <<>>)
            ELSE Return(Product(a, Pow(base1, c), Pow(base2, d)), <<>>)

jesper_very_high(delta_T, T_sink_out, parameters) ==
    LET lacking == first_missing(parameters, <<"a", "d", "b", "c">>, 1)
    IN  IF lacking # None THEN Raise("KeyError", lacking, <<>>)
        ELSE
        LET a == GetItem(parameters, "a")
            b == GetItem(parameters, "b")
            c == GetItem(parameters, "c")
            d == GetItem(parameters, "d")
            base1 == RAdd(delta_T, RMul(R(2), d))
            base2 == RAdd(T_sink_out, d)
        IN  IF PowFails(base1, b) \/ PowFails(base2, c)
            THEN Raise("ZeroDivisionError", "0.0 cannot be raised to a negative power", <<>>)
            ELSE Return(Product(a, Pow(base1, b), Pow(base2, c)), <<>>)

quality_factor_default == Q(4, 10)

carnot(delta_T, T_sink_out, quality_factor) ==
    IF RIsZero(delta_T)
    THEN Raise("ZeroDivisionError", "float division by zero", <<>>)
    ELSE Return(Num(RMul(quality_factor, RDiv(T_sink_out, delta_T))), <<>>)

\* an optional argument: None, or the dict passed
NoneArg == [none |-> TRUE]
Some(d) == [none |-> FALSE, dict |-> d]

\* a structure check that looks at the type names only
missing_field_Unchecked(value, entry, j) == None

\* the inner loop of calculate's structure check: the first field of the default
\* entry `value`, from field j on, that `entry` lacks (None: it lacks none)
RECURSIVE missing_field(_, _, _)
missing_field(value, entry, j) ==
    IF j > Len(value) THEN None
    ELSE IF ~HasKey(entry, value[j][1]) THEN value[j][1]
    ELSE missing_field(value, entry, j + 1)

\* a structure check that also refuses what the default table does not have
missing_key_Exact(defaults, parameters, i) ==
    LET Fields(d) == {d[j][1] : j \in 1..Len(d)}
        Differs(k) ==
            \/ ~HasKey(parameters, k)
            \/ ~HasKey(defaults, k)
            \/ Fields(GetItem(parameters, k)) # Fields(GetItem(defaults, k))
        differing == {k \in Fields(parameters) \cup Fields(defaults) : Differs(k)}
    IN  IF differing = {} THEN None ELSE CHOOSE k \in differing : TRUE

\* the outer loop: the first key `parameters` lacks, from default entry i on
RECURSIVE missing_key(_, _, _)
missing_key(defaults, parameters, i) ==
    IF i > Len(defaults) THEN None
    ELSE LET key == defaults[i][1]
         IN  IF ~HasKey(parameters, key) THEN key
             ELSE LET k == missing_field(defaults[i][2], GetItem(parameters, key), 1)
                  IN  IF k # None THEN k
                      ELSE missing_key(defaults, parameters, i + 1)

\* what a call that emitted `before` and then ran `out` amounts to; `after` is
\* emitted only if `out` returned
Emitting(before, out, after) ==
    IF out.kind = "raise"
    THEN [out EXCEPT !.warnings = before \o out.warnings]
    ELSE [out EXCEPT !.warnings = before \o out.warnings \o after]

WarnIf(cond, text) == IF cond THEN <<text>> ELSE <<>>

\* a check that x is outside [low, high]
Chained_Outside(low, x, high) == RLt(x, low) \/ RLt(high, x)

\* Python's chained comparison low > x > high
Chained(low, x, high) == RLt(x, low) /\ RLt(high, x)

\* the difference taken from the sink temperature in K
calculate_body_KelvinDelta(source_temperature, sink_temperature, parameters) ==
    LET classified == classify_hp(sink_temperature, parameters)
    IN  IF classified.kind = "raise" THEN classified
        ELSE
        LET hp == classified.value.s
            unclassified == WarnIf(hp = None, "could not be classified")
            T == RAdd(sink_temperature, Q(27315, 100))
            delta == RSub(T, source_temperature)
        IN  IF ~HasKey(parameters, hp)
            THEN Raise("KeyError", hp, unclassified)
            ELSE
            LET p == GetItem(parameters, hp)
            IN  IF hp = "conventional"
                THEN Emitting(unclassified, jesper_conventional(delta, T, p),
                        WarnIf(Chained(R(10), delta, R(78)),
                               "temperature difference outside [10, 78]")
                        \o WarnIf(Chained(R(-10), source_temperature, R(60)),
                               "source temperature outside the range"))
                ELSE IF hp = "very high temperature"
                THEN Emitting(unclassified, jesper_very_high(delta, T, p),
                        WarnIf(Chained(R(25), delta, R(95)),
                               "temperature difference outside [25, 95]")
                        \o WarnIf(Chained(Q(251, 10), source_temperature, Q(1101, 10)),
                               "source temperature outside the range"))
                ELSE Emitting(unclassified, carnot(delta, T, quality_factor_default), <<>>)

calculate_body(source_temperature, sink_temperature, parameters) ==
    LET classified == classify_hp(sink_temperature, parameters)
    IN  IF classified.kind = "raise" THEN classified
        ELSE
        LET hp == classified.value.s
            unclassified == WarnIf(hp = None, "could not be classified")
            T == RAdd(sink_temperature, Q(27315, 100))
            delta == RSub(sink_temperature, source_temperature)
        IN  IF ~HasKey(parameters, hp)
            THEN Raise("KeyError", hp, unclassified)
            ELSE
            LET p == GetItem(parameters, hp)
            IN  IF hp = "conventional"
                THEN Emitting(unclassified, jesper_conventional(delta, T, p),
                        WarnIf(Chained(R(10), delta, R(78)),
                               "temperature difference outside [10, 78]")
                        \o WarnIf(Chained(R(-10), source_temperature, R(60)),
                               "source temperature outside the range"))
                ELSE IF hp = "very high temperature"
                THEN Emitting(unclassified, jesper_very_high(delta, T, p),
                        WarnIf(Chained(R(25), delta, R(95)),
                               "temperature difference outside [25, 95]")
                        \o WarnIf(Chained(Q(251, 10), source_temperature, Q(1101, 10)),
                               "source temperature outside the range"))
                ELSE Emitting(unclassified, carnot(delta, T, quality_factor_default), <<>>)

calculate(source_temperature, sink_temperature, parameters) ==
    IF parameters.none
    THEN calculate_body(source_temperature, sink_temperature, HP_PARAMETERS)
    ELSE LET missing == missing_key(HP_PARAMETERS, parameters.dict, 1)
         IN  IF missing # None
             THEN Raise("ValueError", missing, <<>>)
             ELSE calculate_body(source_temperature, sink_temperature, parameters.dict)

\* the stores of classify_hp and of calculate to `parameters`, which is the dict
\* `target`: both read it (items(), in, []) and assign to local names only
classify_hp_stores(T_sink_out, parameters, target) == <<>>
calculate_stores(source_temperature, sink_temperature, parameters, target) == <<>>

(***************************************************************************)
(* Inputs of the calls.                                                    *)
(***************************************************************************)
Temperatures == {R(-20), R(20), R(40), R(70), Q(141, 2)}
MassFlows == {R(-1), R(0), Q(1, 2), R(100)}
Cops == {R(-1), R(0), Q(1, 2), R(3), Q(16, 5)}
Powers == {R(-1), R(0), R(10), R(12560000)}

CostKeys == {R(-1), R(1), R(3), R(10)}
CostValues == {R(2), R(6), R(7)}
CostTables ==
    {t \in UNION {[1..n -> CostKeys \X CostValues] : n \in 0..MaxCostEntries} :
        DistinctKeys(t)}
Sizes == {R(-1), Q(-1, 2), R(0), Q(1, 2), R(1), R(2), R(3), R(5), R(10), R(15),
          Q(33, 2), R(20), R(25)}


Sources == {R(-20), R(20), R(60)}
Sinks == {R(60), R(100), R(155), R(170), R(250)}

TypeNames == {"conventional", "very high temperature", "custom"}
FieldNames == {"T_sink_out_low", "T_sink_out_high", "a", "b", "c", "d"}
Ranges == {<<R(0), R(100)>>, <<R(100), R(160)>>, <<R(150), R(200)>>}

\* an entry of a caller's parameter set: the given range, coefficients, without
\* the field `drop` ("": none is dropped) and with a further field if `extra`
Entry(range, drop, extra) ==
    LET full == << <<"T_sink_out_low", range[1]>>, <<"T_sink_out_high", range[2]>>,
                   <<"a", Dec(2, 0)>>, <<"b", R(3)>>, <<"c", R(-2)>>, <<"d", R(0)>> >>
        Kept(kv) == kv[1] # drop
    IN  SelectSeq(full, Kept) \o (IF extra THEN << <<"e", R(1)>> >> ELSE <<>>)

NameOrders ==
    {o \in UNION {[1..n -> TypeNames] : n \in 0..Cardinality(TypeNames)} :
        \A i, j \in 1..Len(o) : o[i] = o[j] => i = j}

\* at most one entry of a set is defective: <<entry, dropped field, extra field>>
Defects(n) ==
    {<<0, "", FALSE>>}
    \cup {<<i, f, FALSE>> : i \in 1..n, f \in FieldNames}
    \cup {<<i, "", TRUE>> : i \in 1..n}

ParamSet(order, ranges, defect) ==
    [i \in 1..Len(order) |->
        <<order[i],
          Entry(ranges[i],
                IF defect[1] = i THEN defect[2] ELSE "",
                defect[1] = i /\ defect[3])>>]

ParamSets ==
    UNION {UNION {{ParamSet(o, r, df) : df \in Defects(Len(o))} :
                  r \in [1..Len(o) -> Ranges]} : o \in NameOrders}

(***************************************************************************)
(* The machine: a caller makes one call at a time and takes its outcome.   *)
(***************************************************************************)
NoCall == [fn |-> "none"]
NoOutcome == Return(NoValue, <<>>)

Init ==
    /\ HP_PARAMETERS = HP_PARAMETERS_INIT
    /\ COST_REGRESSION = COST_REGRESSION_INIT
    /\ pc = "idle"
    /\ call = NoCall
    /\ outcome = NoOutcome
    /\ argument = NoneArg
    /\ first = NoOutcome

\* what call c gives with the tables and the passed dict as they are now
OutcomeOf(c) ==
    CASE c.fn = "calculate_thermal_power" ->
            calculate_thermal_power(c.high_temperature, c.low_temperature, c.mass_flow)
      [] c.fn = "calculate_output_power" ->
            calculate_output_power(c.cop, c.thermal_power_source)
      [] c.fn = "interpolate" ->
            interpolate(c.size, IF c.default THEN COST_REGRESSION ELSE argument.dict)
      [] c.fn = "classify_hp" ->
            classify_hp(c.T_sink_out, IF c.default THEN HP_PARAMETERS ELSE argument.dict)
      [] c.fn = "calculate" ->
            calculate(c.source_temperature, c.sink_temperature,
                      IF c.default THEN NoneArg ELSE argument)

\* the stores call c makes
StoresOf(c) ==
    CASE c.fn = "calculate_thermal_power" ->
            calculate_thermal_power_stores(c.high_temperature, c.low_temperature,
                                           c.mass_flow)
      [] c.fn = "calculate_output_power" ->
            calculate_output_power_stores(c.cop, c.thermal_power_source)
      [] c.fn = "interpolate" ->
            IF c.default
            THEN interpolate_stores(c.size, COST_REGRESSION, "COST_REGRESSION")
            ELSE interpolate_stores(c.size, argument.dict, "argument")
      [] c.fn = "classify_hp" ->
            IF c.default
            THEN classify_hp_stores(c.T_sink_out, HP_PARAMETERS, "HP_PARAMETERS")
            ELSE classify_hp_stores(c.T_sink_out, argument.dict, "argument")
      [] c.fn = "calculate" ->
            IF c.default
            THEN calculate_stores(c.source_temperature, c.sink_temperature,
                                  HP_PARAMETERS, "HP_PARAMETERS")
            ELSE calculate_stores(c.source_temperature, c.sink_temperature,
                                  argument.dict, "argument")

\* the dicts after the stores
DictsAfter(stores, passed) ==
    /\ HP_PARAMETERS' = ApplyStores(HP_PARAMETERS, "HP_PARAMETERS", stores)
    /\ COST_REGRESSION' = ApplyStores(COST_REGRESSION, "COST_REGRESSION", stores)
    /\ argument' = IF passed.none THEN NoneArg
                   ELSE Some(ApplyStores(passed.dict, "argument", stores))

CallThermalPower ==
    /\ pc = "idle"
    /\ \E h \in Temperatures, l \in Temperatures, m \in MassFlows :
        /\ call' = [fn |-> "calculate_thermal_power", high_temperature |-> h,
                    low_temperature |-> l, mass_flow |-> m]
        /\ outcome' = calculate_thermal_power(h, l, m)
        /\ DictsAfter(calculate_thermal_power_stores(h, l, m), NoneArg)
    /\ pc' = "done"
    /\ UNCHANGED first

CallOutputPower ==
    /\ pc = "idle"
    /\ \E c \in Cops, p \in Powers :
        /\ call' = [fn |-> "calculate_output_power", cop |-> c,
                    thermal_power_source |-> p]
        /\ outcome' = calculate_output_power(c, p)
        /\ DictsAfter(calculate_output_power_stores(c, p), NoneArg)
    /\ pc' = "done"
    /\ UNCHANGED first

\* costs=None: the default table is used
CallInterpolateDefault ==
    /\ pc = "idle"
    /\ \E size \in Sizes :
        /\ call' = [fn |-> "interpolate", size |-> size, costs |-> COST_REGRESSION,
                    default |-> TRUE]
        /\ outcome' = interpolate(size, COST_REGRESSION)
        /\ DictsAfter(interpolate_stores(size, COST_REGRESSION, "COST_REGRESSION"), NoneArg)
    /\ pc' = "done"
    /\ UNCHANGED first

CallInterpolate ==
    /\ pc = "idle"
    /\ \E size \in Sizes, costs \in CostTables :
        /\ call' = [fn |-> "interpolate", size |-> size, costs |-> costs,
                    default |-> FALSE]
        /\ outcome' = interpolate(size, costs)
        /\ DictsAfter(interpolate_stores(size, costs, "argument"), Some(costs))
    /\ pc' = "done"
    /\ UNCHANGED first

\* the caller passes the module's own table
CallClassifyHpDefault ==
    /\ pc = "idle"
    /\ \E sink \in Sinks :
        /\ call' = [fn |-> "classify_hp", T_sink_out |-> sink,
                    parameters |-> HP_PARAMETERS, default |-> TRUE]
        /\ outcome' = classify_hp(sink, HP_PARAMETERS)
        /\ DictsAfter(classify_hp_stores(sink, HP_PARAMETERS, "HP_PARAMETERS"), NoneArg)
    /\ pc' = "done"
    /\ UNCHANGED first

CallClassifyHp ==
    /\ pc = "idle"
    /\ \E sink \in Sinks, parameters \in ParamSets :
        /\ call' = [fn |-> "classify_hp", T_sink_out |-> sink,
                    parameters |-> parameters, default |-> FALSE]
        /\ outcome' = classify_hp(sink, parameters)
        /\ DictsAfter(classify_hp_stores(sink, parameters, "argument"), Some(parameters))
    /\ pc' = "done"
    /\ UNCHANGED first

\* parameters=None: the default table is used
CallCalculateDefault ==
    /\ pc = "idle"
    /\ \E source \in Sources, sink \in Sinks :
        /\ call' = [fn |-> "calculate", source_temperature |-> source,
                    sink_temperature |-> sink, parameters |-> NoneArg,
                    default |-> TRUE]
        /\ outcome' = calculate(source, sink, NoneArg)
        /\ DictsAfter(calculate_stores(source, sink, HP_PARAMETERS, "HP_PARAMETERS"), NoneArg)
    /\ pc' = "done"
    /\ UNCHANGED first

CallCalculate ==
    /\ pc = "idle"
    /\ \E source \in Sources, sink \in Sinks, parameters \in ParamSets :
        /\ call' = [fn |-> "calculate", source_temperature |-> source,
                    sink_temperature |-> sink, parameters |-> Some(parameters),
                    default |-> FALSE]
        /\ outcome' = calculate(source, sink, Some(parameters))
        /\ DictsAfter(calculate_stores(source, sink, parameters, "argument"),
                   Some(parameters))
    /\ pc' = "done"
    /\ UNCHANGED first

\* the caller makes the call it has made once more, with the same arguments:
\* the same numbers, the same dict object, the tables as they are now
RepeatCall ==
    /\ pc = "done"
    /\ first' = outcome
    /\ outcome' = OutcomeOf(call)
    /\ DictsAfter(StoresOf(call), argument)
    /\ pc' = "repeated"
    /\ UNCHANGED call

\* the caller takes the outcome and goes on to its next statement
NextCall ==
    /\ pc \in {"done", "repeated"}
    /\ pc' = "idle"
    /\ call' = NoCall
    /\ outcome' = NoOutcome
    /\ argument' = NoneArg
    /\ first' = NoOutcome
    /\ UNCHANGED <<HP_PARAMETERS, COST_REGRESSION>>

Next ==
    \/ CallThermalPower
    \/ CallOutputPower
    \/ CallInterpolateDefault
    \/ CallInterpolate
    \/ CallClassifyHpDefault
    \/ CallClassifyHp
    \/ CallCalculateDefault
    \/ CallCalculate
    \/ RepeatCall
    \/ NextCall

Spec == Init /\ [][Next]_vars


(***************************************************************************)
(* What the claims speak of.                                               *)
(***************************************************************************)
Called(fn) == pc = "done" /\ call.fn = fn
Returned == outcome.kind = "return"
Raised(exc) == outcome.kind = "raise" /\ outcome.exc = exc

Max(S) == CHOOSE x \in S : \A y \in S : y <= x

\* the entry has both ends of its range, and the range holds T
HasRange(values) == HasKey(values, "T_sink_out_low") /\ HasKey(values, "T_sink_out_high")
Holds(values, T) ==
    /\ RLe(GetItem(values, "T_sink_out_low"), T)
    /\ RLe(T, GetItem(values, "T_sink_out_high"))
AllRanged(parameters) == \A i \in 1..Len(parameters) : HasRange(parameters[i][2])
Matching(parameters, T) == {i \in 1..Len(parameters) : Holds(parameters[i][2], T)}

DefaultNames == {"conventional", "very high temperature"}
DefaultFields == {"T_sink_out_low", "T_sink_out_high", "a", "b", "c", "d"}
NamesOf(d) == {d[i][1] : i \in 1..Len(d)}

\* what a caller's set lacks of the default table: type names, and fields of
\* the entries it has under the default type names
LackingNames(parameters) == DefaultNames \ NamesOf(parameters)
LackingFields(parameters) ==
    UNION {DefaultFields \ NamesOf(GetItem(parameters, k)) :
           k \in DefaultNames \cap NamesOf(parameters)}
Lacks(parameters) == LackingNames(parameters) # {} \/ LackingFields(parameters) # {}

\* what it has beyond the default table
HasMore(parameters) ==
    \/ NamesOf(parameters) \ DefaultNames # {}
    \/ \E i \in 1..Len(parameters) : NamesOf(parameters[i][2]) \ DefaultFields # {}

\* the parameter set a call of calculate works with
InUse == IF call.parameters.none THEN HP_PARAMETERS ELSE call.parameters.dict

Unclassifiable ==
    /\ Called("calculate")
    /\ call.parameters.none \/ ~Lacks(call.parameters.dict)
    /\ AllRanged(InUse)
    /\ Matching(InUse, call.sink_temperature) = {}

\* C1: when the sink temperature lies in no entry's range of the parameter set in
\* use, calculate emits the 'could not be classified' warning, is not aborted by
\* it, and its result is carnot(sink - source, sink + 273.15) with quality
\* factor 0.4.
C1_UnclassifiedFallsBackToCarnot ==
    Unclassifiable =>
        outcome = Emitting(<<"could not be classified">>,
                           carnot(RSub(call.sink_temperature, call.source_temperature),
                                  RAdd(call.sink_temperature, Q(27315, 100)),
                                  Q(2, 5)),
                           <<>>)

\* C2: classify_hp returns a type name iff the sink temperature lies in at least
\* one entry's inclusive range, None otherwise, and of several matching entries
\* the key of the last one in iteration order.
C2_ClassifyLastMatchWins ==
    (Called("classify_hp") /\ AllRanged(call.parameters)) =>
        LET matching == Matching(call.parameters, call.T_sink_out)
        IN  /\ Returned
            /\ outcome.value.tag = "str"
            /\ (outcome.value.s # None) <=> (matching # {})
            /\ matching # {} => outcome.value.s = call.parameters[Max(matching)][1]

\* the default table at a sink temperature of exactly 100: both ranges hold it
C2_Witness ==
    /\ Called("classify_hp")
    /\ call.parameters = HP_PARAMETERS_INIT
    /\ call.T_sink_out = R(100)
    /\ Cardinality(Matching(call.parameters, call.T_sink_out)) = 2
    /\ outcome = Return(Str("very high temperature"), <<>>)

\* C3: a caller-supplied set that lacks a default type name, or a field of a
\* default entry, makes calculate fail with a ValueError naming a missing key,
\* before classification and before any warning, returning no COP.
C3_MissingKeyFailsValidation ==
    (Called("calculate") /\ ~call.parameters.none /\ Lacks(call.parameters.dict)) =>
        /\ Raised("ValueError")
        /\ outcome.arg \in LackingNames(call.parameters.dict)
                           \cup LackingFields(call.parameters.dict)
        /\ outcome.value = NoValue
        /\ outcome.warnings = <<>>

\* both type names are there, one entry lacks a coefficient, and the sink
\* temperature is one no range holds: no warning, no KeyError, a ValueError
C3_Witness ==
    /\ Called("calculate")
    /\ ~call.parameters.none
    /\ LackingNames(call.parameters.dict) = {}
    /\ LackingFields(call.parameters.dict) = {"c"}
    /\ Matching(call.parameters.dict, call.sink_temperature) = {}
    /\ outcome = Raise("ValueError", "c", <<>>)

\* C4 as claimed: a caller-supplied set with an additional type name or an
\* additional field fails validation, as one with a missing key does.
C4_ExtraKeyFailsValidation ==
    (Called("calculate") /\ ~call.parameters.none /\ HasMore(call.parameters.dict)) =>
        Raised("ValueError")

\* C4 as amended: calculate fails validation if and only if the caller-supplied
\* set lacks a default type name or a field of a default entry; what the set has
\* beyond the default table is not looked at.
C4_OnlyMissingKeysFailValidation ==
    (Called("calculate") /\ ~call.parameters.none) =>
        (Raised("ValueError") <=> Lacks(call.parameters.dict))

\* a set with a further type name whose entry has a further field is accepted
C4_Witness ==
    /\ Called("calculate")
    /\ ~call.parameters.none
    /\ ~Lacks(call.parameters.dict)
    /\ "custom" \in NamesOf(call.parameters.dict)
    /\ "e" \in NamesOf(GetItem(call.parameters.dict, "custom"))
    /\ Returned


(***************************************************************************)
(* costs.interpolate                                                       *)
(***************************************************************************)
KeySet(costs) == {costs[i][1] : i \in 1..Len(costs)}
\* the value stored under key k, read off the table
Stored(costs, k, v) == \E i \in 1..Len(costs) : costs[i][1] = k /\ costs[i][2] = v
BelowAll(size, costs) == \A k \in KeySet(costs) : RLt(size, k)
AboveAll(size, costs) == \A k \in KeySet(costs) : RLt(k, size)
\* x1 < size < x2 with no key of the table between x1 and x2
Brackets(costs, x1, x2, size) ==
    /\ x1 \in KeySet(costs) /\ x2 \in KeySet(costs)
    /\ RLt(x1, size) /\ RLt(size, x2)
    /\ \A k \in KeySet(costs) : ~(RLt(x1, k) /\ RLt(k, x2))
RMin(x, y) == IF RLe(x, y) THEN x ELSE y
RMax(x, y) == IF RLe(x, y) THEN y ELSE x

\* C5: interpolate fails with a ValueError, returning no cost, for every size
\* < 0 whatever the table contains, and for every size >= 0 that is no key of
\* the table and is smaller than its smallest key.
C5_TooSmallSizeFails ==
    (/\ Called("interpolate")
     /\ \/ RLt(call.size, RZero)
        \/ /\ call.size \notin KeySet(call.costs)
           /\ KeySet(call.costs) # {}
           /\ BelowAll(call.size, call.costs)) =>
        Raised("ValueError") /\ outcome.value = NoValue

\* size 1/2 with the default table, whose smallest key is 1
C5_Witness ==
    /\ Called("interpolate")
    /\ call.costs = COST_REGRESSION_INIT
    /\ call.size = Q(1, 2)
    /\ outcome = Raise("ValueError", "size is too small", <<>>)

\* C6: for a non-negative size that is a key of the table, interpolate returns
\* the value stored under that key, the smallest and the largest key included.
C6_ExactKeyReturnsStoredValue ==
    (/\ Called("interpolate")
     /\ RLe(RZero, call.size)
     /\ call.size \in KeySet(call.costs)) =>
        /\ Returned
        /\ outcome.value.tag = "num"
        /\ Stored(call.costs, call.size, outcome.value.q)

\* the smallest key of a table of several keys
C6_Witness ==
    /\ Called("interpolate")
    /\ call.size \in KeySet(call.costs)
    /\ Len(call.costs) > 1
    /\ \A k \in KeySet(call.costs) : RLe(call.size, k)
    /\ Returned
    /\ Stored(call.costs, call.size, outcome.value.q)

\* C7: for a size greater than the largest key, interpolate returns the value
\* stored under the largest key, not an extension of the last segment, and
\* raises no error.  (The keys of a cost table are positive sizes, so such a
\* size is positive; the table has at least one entry.)
C7_AboveLargestKeyClamps ==
    (/\ Called("interpolate")
     /\ RLe(RZero, call.size)
     /\ KeySet(call.costs) # {}
     /\ AboveAll(call.size, call.costs)) =>
        /\ Returned
        /\ outcome.value.tag = "num"
        /\ \E k \in KeySet(call.costs) :
            /\ \A j \in KeySet(call.costs) : RLe(j, k)
            /\ Stored(call.costs, k, outcome.value.q)

\* size 25 with the default table: 510000 and not the 410000 of the last segment
C7_Witness ==
    /\ Called("interpolate")
    /\ call.costs = COST_REGRESSION_INIT
    /\ call.size = R(25)
    /\ outcome = Return(Num(R(510000)), <<>>)

C9_ThermalPower ==
    Called("calculate_thermal_power") =>
        IF RLt(call.high_temperature, call.low_temperature) \/ RLt(call.mass_flow, RZero)
        THEN Raised("ValueError") /\ outcome.value = NoValue
        ELSE /\ outcome =
                  Return(Num(RMul(RMul(R(4187), call.mass_flow),
                                  RSub(call.high_temperature, call.low_temperature))), <<>>)
             /\ RLe(RZero, outcome.value.q)

\* equal temperatures and no flow: 0 is returned
C9_Witness ==
    /\ Called("calculate_thermal_power")
    /\ call.high_temperature = call.low_temperature
    /\ call.mass_flow = RZero
    /\ outcome = Return(Num(RZero), <<>>)

Passed ==
    CASE call.fn = "interpolate" -> call.costs
      [] call.fn = "classify_hp" -> call.parameters
      [] call.fn = "calculate" -> call.parameters.dict

\* C11: after any sequence of calls, returning, warning or failing, with default
\* or caller-supplied tables, HP_PARAMETERS and COST_REGRESSION are as they were
\* set up and the dict a caller passed is as it was passed; a call made once
\* more with the same arguments has the same outcome.
C11_TablesUnchangedCallsRepeatable ==
    /\ HP_PARAMETERS = HP_PARAMETERS_INIT
    /\ COST_REGRESSION = COST_REGRESSION_INIT
    /\ (pc \in {"done", "repeated"} /\ ~argument.none) => argument.dict = Passed
    /\ pc = "repeated" => outcome = first

\* a call of calculate with a caller's set that warned and then failed, made a
\* second time
C11_Witness ==
    /\ pc = "repeated"
    /\ call.fn = "calculate"
    /\ ~call.parameters.none
    /\ "custom" \in NamesOf(call.parameters.dict)
    /\ first = Raise("KeyError", None, <<"could not be classified">>)
    /\ outcome = first
    /\ argument = call.parameters

(***************************************************************************)
(* cop.calculate: the model chosen, the warnings emitted.                  *)
(***************************************************************************)
\* a call of calculate that gets past the structure check and classifies
Classified ==
    /\ Called("calculate")
    /\ call.parameters.none \/ ~Lacks(call.parameters.dict)
    /\ AllRanged(InUse)
    /\ Matching(InUse, call.sink_temperature) # {}
\* the last entry whose range holds the sink temperature
LastMatch == InUse[Max(Matching(InUse, call.sink_temperature))]

C13_OnlyUnclassifiedWarning ==
    Called("calculate") =>
        /\ outcome.warnings \in {<<>>, <<"could not be classified">>}
        /\ outcome.warnings # <<>> =>
                /\ call.parameters.none \/ ~Lacks(call.parameters.dict)
                /\ Matching(InUse, call.sink_temperature) = {}
        /\ (Classified /\ LastMatch[1] \in DefaultNames) => outcome.warnings = <<>>

\* the default table at source -20, sink 60: a difference of 80, above 78, and
\* a source below -10, and no warning
C13_Witness ==
    /\ Classified
    /\ call.parameters.none
    /\ LastMatch[1] = "conventional"
    /\ call.source_temperature = R(-20)
    /\ call.sink_temperature = R(60)
    /\ RLt(R(78), RSub(call.sink_temperature, call.source_temperature))
    /\ Returned
    /\ outcome.warnings = <<>>

=============================================================================
